---------------------------- MODULE Spec2Model ----------------------------
(***************************************************************************)
(* Model of src/src/main.rs: the own-ship / target bearing simulation.     *)
(*                                                                         *)
(* Units.  The program computes in f32; the model computes in integers:    *)
(*   time      milliseconds          (1.0 s   = 1000)                      *)
(*   angles    millidegrees          (360 deg = 360000)                    *)
(*   speed     knots                                                       *)
(*   position  millimetres           (5000 m  = 5000000)                   *)
(*   screen    pixels                                                      *)
(* One step of the model is one iteration of the main loop (one frame).    *)
(***************************************************************************)
EXTENDS Integers, Sequences, FiniteSets

VARIABLES
    sim_time,        \* sim.current_sim_time_s
    accumulator,     \* time_accumulator
    own_ship,        \* OwnShip: position_m, speed_knots, heading_deg, recorded_bearings
    targets,         \* Vec<Target>: id, position_m, speed_knots, heading_deg, track_history
    last_true_bearing,
    last_relative_bearing,
    graph,           \* draw_line calls of draw_bearing_rate_graph in the last frame,
                     \* graph[h][i] = calls made for pair i of history h
    frames,          \* history variable: loop iterations so far
    ticks,           \* history variable: executions of line 300 (accumulator -= time_step)
    updates,         \* history variable: executions of the own-ship update at line 304
    real_time,       \* history variable: sum of all dt returned by get_frame_time
    track_log,       \* history variable: per target, its position after every tick
    probe            \* a call of a pure function on its own: [fn, arg, out], out = the
                     \* results of applying fn to arg and then to its own result

vars == <<sim_time, accumulator, own_ship, targets, last_true_bearing,
          last_relative_bearing, graph, frames, ticks, updates, real_time, track_log,
          probe>>

---------------------------------------------------------------------------
(* Program constants *)

METERS_PER_NAUTICAL_MILE == 1852
time_step_s == 1000
time_bearing_graph_history_s == 300000
FullCircle == 360000
turn_rate_deg_sec == 2
speed_change_knots == 5
TrackCap == 200
WrapThreshold == 300000
screen_w == 800
screen_h == 600

(* Bounds of the exploration *)
MaxFrames == 3          \* frames explored by Spec
MaxAccum == 3000        \* cap on accumulator + dt (ms)
MaxSteadyFrames == 64   \* frames explored by SpecSteady
MaxRunTicks == 303      \* ticks explored by SpecRun
MaxRateFrames == 8      \* frames explored by SpecRate
MaxTurns == 3           \* SpecNormalize: angles up to this many full circles either side

---------------------------------------------------------------------------
(* Arithmetic helpers *)

Abs(a) == IF a < 0 THEN -a ELSE a

\* division rounding toward zero
SDiv(a, b) == IF a >= 0 THEN a \div b ELSE -((-a) \div b)

Max(a, b) == IF a >= b THEN a ELSE b

Min(a, b) == IF a <= b THEN a ELSE b

---------------------------------------------------------------------------
(* normalize_degrees: the two while loops *)

RECURSIVE AddWhileNegative(_)
AddWhileNegative(angle) ==
    IF angle < 0 THEN AddWhileNegative(angle + FullCircle) ELSE angle

\* mutant: the second loop stops at 360 instead of below it
RECURSIVE SubWhileTooBig_Inclusive(_)
SubWhileTooBig_Inclusive(angle) ==
    IF angle > FullCircle THEN SubWhileTooBig_Inclusive(angle - FullCircle) ELSE angle

RECURSIVE SubWhileTooBig(_)
SubWhileTooBig(angle) ==
    IF angle >= FullCircle THEN SubWhileTooBig(angle - FullCircle) ELSE angle

normalize_degrees(angle) == SubWhileTooBig(AddWhileNegative(angle))

---------------------------------------------------------------------------
(* Trigonometry in fixed point *)

\* sin of x millidegrees, 0 <= x <= 180000, times 1000 (Bhaskara's rational form)
SinHalfTurn(x) ==
    LET c == x \div 10
        p == c * (18000 - c)
    IN  (4 * p) \div ((405000000 - p) \div 1000)

\* heading_rad.sin() * 1000
SinMilli(deg) ==
    LET a == normalize_degrees(deg)
    IN  IF a <= 180000 THEN SinHalfTurn(a) ELSE -SinHalfTurn(a - 180000)

\* heading_rad.cos() * 1000
CosMilli(deg) == SinMilli(deg + 90000)

\* a * 1000 / b for 0 <= a <= b, kept inside 32 bits
RatioMilli(a, b) ==
    IF b < 2000000 THEN (a * 1000) \div b ELSE a \div (b \div 1000)

\* atan(a / b) in millidegrees for 0 <= a <= b, b > 0: exact at 0 and at 45 degrees
AtanOctant(a, b) ==
    LET r == RatioMilli(a, b)
    IN  45 * r + (((r * (1000 - r)) \div 100) * 1564) \div 1000

\* atan2(y, x) in millidegrees for y >= 0, x >= 0, not both 0
AtanQuadrant(y, x) ==
    IF y <= x THEN AtanOctant(y, x) ELSE 90000 - AtanOctant(x, y)

\* y.atan2(x).to_degrees(), in (-180000, 180000]
Atan2MilliDeg(y, x) ==
    IF x = 0 /\ y = 0 THEN 0
    ELSE IF y >= 0 /\ x >= 0 THEN AtanQuadrant(y, x)
    ELSE IF y >= 0 THEN 180000 - AtanQuadrant(y, -x)
    ELSE IF x >= 0 THEN -AtanQuadrant(-y, x)
    ELSE -(180000 - AtanQuadrant(-y, -x))

---------------------------------------------------------------------------
(* update_position *)

\* speed_knots * KNOTS_TO_MPS, in mm/s
SpeedMmPerSec(speed_knots) ==
    (speed_knots * METERS_PER_NAUTICAL_MILE * 1000) \div 3600

update_position(pos, speed_knots, heading_deg, dt) ==
    LET speed_mps == SpeedMmPerSec(speed_knots)
        vx == SDiv(SinMilli(heading_deg) * speed_mps, 1000)
        vy == SDiv(CosMilli(heading_deg) * speed_mps, 1000)
    IN  [x |-> pos.x + SDiv(vx * dt, 1000), y |-> pos.y + SDiv(vy * dt, 1000)]

---------------------------------------------------------------------------
(* calculate_true_bearing_deg *)

\* mutant: the mathematical convention atan2(dy, dx), measured from East
calculate_true_bearing_deg_FromEast(observer_pos, target_pos) ==
    LET dx == target_pos.x - observer_pos.x
        dy == target_pos.y - observer_pos.y
    IN  normalize_degrees(Atan2MilliDeg(dy, dx))

calculate_true_bearing_deg(observer_pos, target_pos) ==
    LET dx == target_pos.x - observer_pos.x
        dy == target_pos.y - observer_pos.y
    IN  normalize_degrees(Atan2MilliDeg(dx, dy))

---------------------------------------------------------------------------
(* handle_input: keys is the set of keys held (Left, Right) or pressed (Up, Down) *)

TurnDelta(dt) == turn_rate_deg_sec * dt * 30

\* mutant: the heading is not normalized after the turn
InputHeading_Raw(heading, dt, keys) ==
    LET h1 == IF "Left" \in keys THEN heading - TurnDelta(dt) ELSE heading
    IN  IF "Right" \in keys THEN h1 + TurnDelta(dt) ELSE h1

InputHeading(heading, dt, keys) ==
    LET h1 == IF "Left" \in keys THEN heading - TurnDelta(dt) ELSE heading
        h2 == IF "Right" \in keys THEN h1 + TurnDelta(dt) ELSE h1
    IN  normalize_degrees(h2)

\* mutant: the decrease is not clamped
InputSpeed_NoClamp(speed, keys) ==
    LET s1 == IF "Up" \in keys THEN speed + speed_change_knots ELSE speed
    IN  IF "Down" \in keys THEN s1 - speed_change_knots ELSE s1

InputSpeed(speed, keys) ==
    LET s1 == IF "Up" \in keys THEN speed + speed_change_knots ELSE speed
    IN  IF "Down" \in keys THEN Max(s1 - speed_change_knots, 0) ELSE s1

handle_input(ship, dt, keys) ==
    [ship EXCEPT !.heading_deg = InputHeading(ship.heading_deg, dt, keys),
                 !.speed_knots = InputSpeed(ship.speed_knots, keys)]

---------------------------------------------------------------------------
(* The simulation update of one tick (main, lines 300-351) *)

\* mutant: evicts the newest position instead of the oldest
PushTrack_PopBack(track, pos) ==
    LET pushed == Append(track, pos)
    IN  IF Len(pushed) > TrackCap THEN SubSeq(pushed, 1, Len(pushed) - 1) ELSE pushed

\* lines 312-322: advance one target, push its position, evict the oldest over the cap
PushTrack(track, pos) ==
    LET pushed == Append(track, pos)
    IN  IF Len(pushed) > TrackCap THEN Tail(pushed) ELSE pushed

\* mutant: the target is advanced by the real time accumulated, not by one time step
AdvanceTarget_RealTime(target) ==
    LET pos == update_position(target.position_m, target.speed_knots,
                               target.heading_deg, time_step_s + accumulator)
    IN  [target EXCEPT !.position_m = pos,
                       !.track_history = PushTrack(target.track_history, pos)]

AdvanceTarget(target) ==
    LET pos == update_position(target.position_m, target.speed_knots,
                               target.heading_deg, time_step_s)
    IN  [target EXCEPT !.position_m = pos,
                       !.track_history = PushTrack(target.track_history, pos)]

\* mutant: never prunes
PruneHistory_Never(history, now) == history

\* mutant: also prunes the record whose age equals the window
RECURSIVE PruneHistory_AtWindow(_, _)
PruneHistory_AtWindow(history, now) ==
    IF Len(history) > 0 /\ now - Head(history).timestamp_s >= time_bearing_graph_history_s
    THEN PruneHistory_AtWindow(Tail(history), now)
    ELSE history

\* lines 343-349: pop from the front while the front record is older than the window
RECURSIVE PruneHistory(_, _)
PruneHistory(history, now) ==
    IF Len(history) > 0 /\ now - Head(history).timestamp_s > time_bearing_graph_history_s
    THEN PruneHistory(Tail(history), now)
    ELSE history

\* mutant: pushes the new record at the front
RecordAndPrune_PushFront(history, now, relative_bearing) ==
    PruneHistory(<<[timestamp_s |-> now, relative_bearing_deg |-> relative_bearing]>>
                 \o history, now)

\* lines 338-349: push the new record, then prune
RecordAndPrune(history, now, relative_bearing) ==
    PruneHistory(Append(history, [timestamp_s |-> now,
                                  relative_bearing_deg |-> relative_bearing]), now)

\* mutant: the first entry is taken whatever its id
FindHistory_AnyEntry(recorded, id) == IF recorded = << >> THEN 0 ELSE 1

\* line 337: iter_mut().find(|(id, _)| *id == target.id): index of the first entry, or 0
FindHistory(recorded, id) ==
    LET hits == {j \in 1..Len(recorded) : recorded[j].id = id}
    IN  IF hits = {} THEN 0 ELSE CHOOSE j \in hits : \A k \in hits : j <= k

\* mutant: the difference is stored without normalizing it
RelativeBearing_Raw(true_bearing, own_heading) == true_bearing - own_heading

\* line 331
RelativeBearing(true_bearing, own_heading) ==
    normalize_degrees(true_bearing - own_heading)

\* lines 326-351: the bearing loop from target i on; st carries recorded_bearings and
\* the two last_* locals
RECURSIVE BearingLoop(_, _, _, _, _)
BearingLoop(i, tgts, own_pos, own_heading, st) ==
    IF i > Len(tgts) THEN st
    ELSE
        LET true_bearing == calculate_true_bearing_deg(own_pos, tgts[i].position_m)
            relative_bearing == RelativeBearing(true_bearing, own_heading)
            j == FindHistory(st.recorded, tgts[i].id)
            rec == IF j = 0 THEN st.recorded
                   ELSE [st.recorded EXCEPT ![j].history =
                            RecordAndPrune(@, st.now, relative_bearing)]
        IN  BearingLoop(i + 1, tgts, own_pos, own_heading,
                        [st EXCEPT !.recorded = rec,
                                   !.last_true = true_bearing,
                                   !.last_relative = relative_bearing])

\* mutant: the bearings are computed and recorded before the bodies are advanced
SimulationUpdate_BearingsFirst(w) ==
    LET now == w.sim_time + time_step_s
        st == BearingLoop(1, w.targets, w.own_ship.position_m, w.own_ship.heading_deg,
                          [recorded |-> w.own_ship.recorded_bearings, now |-> now,
                           last_true |-> w.last_true, last_relative |-> w.last_relative])
        own_pos == update_position(w.own_ship.position_m, w.own_ship.speed_knots,
                                   w.own_ship.heading_deg, time_step_s)
        tgts == [i \in 1..Len(w.targets) |-> AdvanceTarget(w.targets[i])]
    IN  [sim_time |-> now,
         own_ship |-> [w.own_ship EXCEPT !.position_m = own_pos,
                                         !.recorded_bearings = st.recorded],
         targets |-> tgts,
         last_true |-> st.last_true,
         last_relative |-> st.last_relative]

\* lines 301-351 on the world w = [sim_time, own_ship, targets, last_true, last_relative]
SimulationUpdate(w) ==
    LET now == w.sim_time + time_step_s
        own_pos == update_position(w.own_ship.position_m, w.own_ship.speed_knots,
                                   w.own_ship.heading_deg, time_step_s)
        tgts == [i \in 1..Len(w.targets) |-> AdvanceTarget(w.targets[i])]
        st == BearingLoop(1, tgts, own_pos, w.own_ship.heading_deg,
                          [recorded |-> w.own_ship.recorded_bearings, now |-> now,
                           last_true |-> w.last_true, last_relative |-> w.last_relative])
    IN  [sim_time |-> now,
         own_ship |-> [w.own_ship EXCEPT !.position_m = own_pos,
                                         !.recorded_bearings = st.recorded],
         targets |-> tgts,
         last_true |-> st.last_true,
         last_relative |-> st.last_relative]

---------------------------------------------------------------------------
(* draw_bearing_rate_graph *)

\* lines 359-360
graph_rect ==
    LET map_view_width == screen_w \div 2
    IN  [x |-> map_view_width, y |-> 0, w |-> screen_w - map_view_width,
         h |-> (screen_h * 8) \div 10]

\* lines 180-186: the screen point of a record
PlotX(rect, now, record) ==
    rect.x + rect.w - (rect.w * (now - record.timestamp_s)) \div time_bearing_graph_history_s

PlotY(rect, record) ==
    rect.y + rect.h - (rect.h * record.relative_bearing_deg) \div FullCircle

PlotPoint(rect, now, record) ==
    [x |-> PlotX(rect, now, record), y |-> PlotY(rect, record)]

\* mutant: the record aged exactly the window is not drawn
InWindow_Strict(now, record) == now - record.timestamp_s < time_bearing_graph_history_s

\* line 183
InWindow(now, record) == now - record.timestamp_s <= time_bearing_graph_history_s

\* lines 175-188: the points of the records that pass the window test, in order
PointsToDraw(bearings, now, rect) ==
    LET kept == SelectSeq(bearings, LAMBDA record : InWindow(now, record))
    IN  [i \in 1..Len(kept) |-> PlotPoint(rect, now, kept[i])]

DrawLine(x1, y1, x2, y2) == [x1 |-> x1, y1 |-> y1, x2 |-> x2, y2 |-> y2]

\* mutant: the difference is taken without abs
IsWrap_Signed(record1_bearing, record2_bearing) ==
    record1_bearing - record2_bearing > WrapThreshold

\* line 201
IsWrap(record1_bearing, record2_bearing) ==
    Abs(record1_bearing - record2_bearing) > WrapThreshold

\* lines 204-210: the y of p1_wrap and of p2_wrap
WrapY(rect, record1_bearing, record2_bearing) ==
    IF record1_bearing > record2_bearing
    THEN [p1_wrap |-> rect.y + rect.h, p2_wrap |-> rect.y]
    ELSE [p1_wrap |-> rect.y, p2_wrap |-> rect.y + rect.h]

\* lines 193-217: the draw_line calls of one iteration
DrawPair(rect, p1, p2, record1_bearing, record2_bearing) ==
    IF IsWrap(record1_bearing, record2_bearing)
    THEN LET wy == WrapY(rect, record1_bearing, record2_bearing)
         IN  <<DrawLine(p1.x, p1.y, p2.x, wy.p1_wrap),
               DrawLine(p2.x, p2.y, p1.x, wy.p2_wrap)>>
    ELSE <<DrawLine(p1.x, p1.y, p2.x, p2.y)>>

\* lines 173-219 for one history
DrawHistory(bearings, now, rect) ==
    IF Len(bearings) < 2 THEN << >>
    ELSE LET points == PointsToDraw(bearings, now, rect)
         IN  IF Len(points) > 1
             THEN [i \in 1..(Len(points) - 1) |->
                      DrawPair(rect, points[i], points[i + 1],
                               bearings[i].relative_bearing_deg,
                               bearings[i + 1].relative_bearing_deg)]
             ELSE << >>

draw_bearing_rate_graph(ship, now, rect) ==
    [h \in 1..Len(ship.recorded_bearings) |->
        DrawHistory(ship.recorded_bearings[h].history, now, rect)]

---------------------------------------------------------------------------
(* main: initialisation (lines 257-283) and one loop iteration (lines 290-367) *)

InitOwnShip ==
    [id |-> 0, position_m |-> [x |-> 5000000, y |-> 5000000], speed_knots |-> 5,
     heading_deg |-> 45000, recorded_bearings |-> <<[id |-> 1, history |-> << >>]>>]

InitTargets ==
    <<[id |-> 1, position_m |-> [x |-> 10000000, y |-> 2000000], speed_knots |-> 10,
       heading_deg |-> 225000, track_history |-> << >>]>>

NoProbe == [fn |-> "none", arg |-> 0, out |-> << >>]

\* the state after lines 257-283 with the given own-ship and targets
InitWith(ship, tgts) ==
    /\ sim_time = 0
    /\ accumulator = 0
    /\ own_ship = ship
    /\ targets = tgts
    /\ last_true_bearing = 0
    /\ last_relative_bearing = 0
    /\ graph = << >>
    /\ frames = 0
    /\ ticks = 0
    /\ updates = 0
    /\ real_time = 0
    /\ track_log = [i \in 1..Len(tgts) |-> << >>]

Init == InitWith(InitOwnShip, InitTargets) /\ probe = NoProbe

\* mutant: assigns the frame time instead of adding it
Accumulate_Assign(acc, dt) == dt

\* line 293: time_accumulator += dt
Accumulate(acc, dt) == acc + dt

\* mutant: a tick fires whenever any time has accumulated
TickDue_AnyTime(acc) == acc > 0

\* line 299
TickDue(acc) == acc >= time_step_s

\* mutant: resets the accumulator instead of subtracting one step
AccAfterTick_Reset(acc) == 0

\* line 300: time_accumulator -= sim.time_step_s
AccAfterTick(acc) == acc - time_step_s

\* mutant: handle_input is called after the simulation update instead of before it
Frame_InputLast(dt, keys) ==
    LET acc == Accumulate(accumulator, dt)
        before == [sim_time |-> sim_time, own_ship |-> own_ship, targets |-> targets,
                   last_true |-> last_true_bearing, last_relative |-> last_relative_bearing]
        fire == TickDue(acc)
        ticked == IF fire THEN SimulationUpdate(before) ELSE before
        after == [ticked EXCEPT !.own_ship = handle_input(@, dt, keys)]
    IN  /\ accumulator' = IF fire THEN AccAfterTick(acc) ELSE acc
        /\ sim_time' = after.sim_time
        /\ own_ship' = after.own_ship
        /\ targets' = after.targets
        /\ last_true_bearing' = after.last_true
        /\ last_relative_bearing' = after.last_relative
        /\ graph' = draw_bearing_rate_graph(after.own_ship, after.sim_time, graph_rect)
        /\ frames' = frames + 1
        /\ ticks' = IF fire THEN ticks + 1 ELSE ticks
        /\ updates' = IF fire THEN updates + 1 ELSE updates
        /\ real_time' = real_time + dt
        /\ track_log' = IF fire
                        THEN [i \in 1..Len(targets) |->
                                 Append(track_log[i], after.targets[i].position_m)]
                        ELSE track_log
        /\ UNCHANGED probe

\* lines 292-365 with get_frame_time() = dt and the keyboard state keys
Frame(dt, keys) ==
    LET acc == Accumulate(accumulator, dt)
        steered == handle_input(own_ship, dt, keys)
        before == [sim_time |-> sim_time, own_ship |-> steered, targets |-> targets,
                   last_true |-> last_true_bearing, last_relative |-> last_relative_bearing]
        fire == TickDue(acc)
        after == IF fire THEN SimulationUpdate(before) ELSE before
    IN  /\ accumulator' = IF fire THEN AccAfterTick(acc) ELSE acc
        /\ sim_time' = after.sim_time
        /\ own_ship' = after.own_ship
        /\ targets' = after.targets
        /\ last_true_bearing' = after.last_true
        /\ last_relative_bearing' = after.last_relative
        /\ graph' = draw_bearing_rate_graph(after.own_ship, after.sim_time, graph_rect)
        /\ frames' = frames + 1
        /\ ticks' = IF fire THEN ticks + 1 ELSE ticks
        /\ updates' = IF fire THEN updates + 1 ELSE updates
        /\ real_time' = real_time + dt
        /\ track_log' = IF fire
                        THEN [i \in 1..Len(targets) |->
                                 Append(track_log[i], after.targets[i].position_m)]
                        ELSE track_log
        /\ UNCHANGED probe

\* Frame durations and keyboard states explored
FrameTimes == {16, 500, 1000, 2000}

KeyStates == {{}, {"Left"}, {"Right"}, {"Up"}, {"Down"}, {"Left", "Right"}, {"Up", "Down"}}

\* Any frame duration, any keyboard state, a few frames
Next ==
    \E dt \in FrameTimes, keys \in KeyStates :
        /\ frames < MaxFrames
        /\ accumulator + dt <= MaxAccum
        /\ Frame(dt, keys)

Spec == Init /\ [][Next]_vars

\* 60 frames per second, steering only
NextSteady ==
    \E keys \in {{}, {"Left"}, {"Right"}} :
        /\ frames < MaxSteadyFrames
        /\ Frame(16, keys)

SpecSteady == Init /\ [][NextSteady]_vars

\* A long run with no key touched: every frame lasts one or two time steps
NextRun ==
    \E dt \in {1000, 2000} :
        /\ ticks < MaxRunTicks
        /\ accumulator + dt <= MaxAccum
        /\ Frame(dt, {})

SpecRun == Init /\ [][NextRun]_vars

\* Any frame rate, no key touched
NextRate ==
    \E dt \in FrameTimes :
        /\ frames < MaxRateFrames
        /\ accumulator + dt <= MaxAccum
        /\ Frame(dt, {})

SpecRate == Init /\ [][NextRate]_vars

\* The targets vector with a second target whose id has no entry in recorded_bearings
StrayTarget ==
    [id |-> 2, position_m |-> [x |-> 2000000, y |-> 8000000], speed_knots |-> 8,
     heading_deg |-> 90000, track_history |-> << >>]

InitStray == InitWith(InitOwnShip, Append(InitTargets, StrayTarget)) /\ probe = NoProbe

SpecStray == InitStray /\ [][Next]_vars

---------------------------------------------------------------------------
(* Pure functions called on their own *)

WorldUnchanged ==
    UNCHANGED <<sim_time, accumulator, own_ship, targets, last_true_bearing,
                last_relative_bearing, graph, frames, ticks, updates, real_time,
                track_log>>

\* the value the next application takes: the argument, then the previous result
ProbeInput == IF probe.out = << >> THEN probe.arg ELSE probe.out[Len(probe.out)]

\* angles from -MaxTurns to +MaxTurns full circles: every 7.5 degrees, and the
\* millidegree either side of every multiple of 360
AngleInputs ==
    {7500 * k : k \in (-48 * MaxTurns)..(48 * MaxTurns)}
        \cup {FullCircle * k + e : k \in (-MaxTurns)..MaxTurns, e \in {-1, 1}}

InitNormalize ==
    /\ InitWith(InitOwnShip, InitTargets)
    /\ \E a \in AngleInputs : probe = [fn |-> "normalize_degrees", arg |-> a, out |-> << >>]

\* normalize_degrees applied to the argument, then to its own result
CallNormalize ==
    /\ probe.fn = "normalize_degrees"
    /\ Len(probe.out) < 2
    /\ probe' = [probe EXCEPT !.out = Append(@, normalize_degrees(ProbeInput))]
    /\ WorldUnchanged

SpecNormalize == InitNormalize /\ [][CallNormalize]_vars

\* observers, and target offsets from 1 mm to 3 km along and off the axes
Observers == {[x |-> 0, y |-> 0], InitOwnShip.position_m}

Offsets == {-3000000, -1000, -1, 0, 1, 1000, 3000000}

InitBearing ==
    /\ InitWith(InitOwnShip, InitTargets)
    /\ \E o \in Observers, dx \in Offsets, dy \in Offsets :
          probe = [fn |-> "calculate_true_bearing_deg",
                   arg |-> [observer |-> o, target |-> [x |-> o.x + dx, y |-> o.y + dy]],
                   out |-> << >>]

CallBearing ==
    /\ probe.fn = "calculate_true_bearing_deg"
    /\ probe.out = << >>
    /\ probe' = [probe EXCEPT !.out =
                    <<calculate_true_bearing_deg(probe.arg.observer, probe.arg.target)>>]
    /\ WorldUnchanged

SpecBearing == InitBearing /\ [][CallBearing]_vars

---------------------------------------------------------------------------
(* Properties *)

Histories == 1..Len(own_ship.recorded_bearings)

HistoryOf(h) == own_ship.recorded_bearings[h].history

\* the last n elements of a sequence
LastN(seq, n) == SubSeq(seq, Len(seq) - n + 1, Len(seq))

\* C1: after every frame the accumulator holds less than one time step (all whole
\* ticks have been drained).  The loop body drains at most one tick per frame, so a
\* frame of two time steps or more leaves a whole tick behind.
C1_AccumulatorDrained == accumulator < time_step_s

\* C2: after any number of ticks every record of every bearing history is at most the
\* history window (300 s) old.
C2_RecordsWithinWindow ==
    \A h \in Histories :
        \A i \in 1..Len(HistoryOf(h)) :
            sim_time - HistoryOf(h)[i].timestamp_s <= time_bearing_graph_history_s

\* a record has just reached the age of the window and older ones are gone
C2_Witness ==
    /\ ticks > time_bearing_graph_history_s \div time_step_s + 1
    /\ \E h \in Histories :
          /\ HistoryOf(h) # << >>
          /\ sim_time - Head(HistoryOf(h)).timestamp_s = time_bearing_graph_history_s

\* C3: pruning removes only records older than the window, from the head: after the
\* n-th tick a history holds exactly the records of the ticks whose timestamp lies in
\* [sim_time - window, sim_time], in tick order, min(n, window/time_step + 1) of them.
C3_ExactlyTheWindow ==
    \A h \in Histories :
        LET hist == HistoryOf(h)
            n == Min(ticks, time_bearing_graph_history_s \div time_step_s + 1)
        IN  /\ Len(hist) = n
            /\ \A i \in 1..n : hist[i].timestamp_s = (ticks - n + i) * time_step_s

\* more ticks than the window holds: the head has been pruned, the rest kept
C3_Witness ==
    /\ ticks >= time_bearing_graph_history_s \div time_step_s + 2
    /\ \E h \in Histories :
          Len(HistoryOf(h)) = time_bearing_graph_history_s \div time_step_s + 1

\* C4: every bearing history is ordered by timestamp, and the record a tick appends
\* is stamped no earlier than the tail it is appended after.
C4_Ordered ==
    \A h \in Histories :
        \A i \in 1..(Len(HistoryOf(h)) - 1) :
            HistoryOf(h)[i].timestamp_s <= HistoryOf(h)[i + 1].timestamp_s

C4_AppendAfterTail ==
    ticks' = ticks + 1 =>
        \A h \in Histories :
            HistoryOf(h) # << >> =>
                HistoryOf(h)[Len(HistoryOf(h))].timestamp_s <= sim_time'

C4_HistoryOrdered == [] C4_Ordered /\ [][C4_AppendAfterTail]_vars

\* ticks have appended to a history that already held records
C4_Witness ==
    /\ ticks >= 3
    /\ \E h \in Histories :
          /\ Len(HistoryOf(h)) >= 3
          /\ HistoryOf(h)[Len(HistoryOf(h))].timestamp_s = sim_time

\* C5: no tick is skipped or applied twice: ticks * time_step + accumulator is the sum
\* of all frame times, sim_time is ticks * time_step, and every tick ran one update.
C5_TickAccounting ==
    /\ ticks * time_step_s + accumulator = real_time
    /\ sim_time = ticks * time_step_s
    /\ updates = ticks

\* ticks have fired and real time is still owed to the simulation
C5_Witness == ticks >= 2 /\ accumulator > 0 /\ real_time > 2 * time_step_s

\* C6: 63 frames of 16 ms from a zero accumulator: no tick before the 63rd frame,
\* one tick on it, 8 ms left.
C6_SixtyThreeFrames ==
    /\ real_time = 16 * frames
    /\ frames < 63 => ticks = 0 /\ accumulator = 16 * frames
    /\ frames = 63 => ticks = 1 /\ accumulator = 8

C6_Witness == frames = 63 /\ ticks = 1 /\ accumulator = 8 /\ sim_time = time_step_s

\* the rectangle the graph is drawn in, and the point a record is plotted at
PointOf(record) == PlotPoint(graph_rect, sim_time, record)

WrapPairs(h) ==
    {i \in 1..(Len(HistoryOf(h)) - 1) :
        Abs(HistoryOf(h)[i].relative_bearing_deg
            - HistoryOf(h)[i + 1].relative_bearing_deg) > WrapThreshold}

\* C7: every pair of adjacent records of a history is drawn as two segments exactly
\* when the bearings differ by more than 300 degrees, and as the one direct segment
\* from the first record's point to the second's otherwise; 358 then 2, and 2 then
\* 358, are drawn as two segments.
C7_WrapClassification ==
    /\ \A h \in (IF frames > 0 THEN Histories ELSE {}) :
          LET hist == HistoryOf(h)
          IN  /\ Len(graph[h]) = Max(Len(hist) - 1, 0)
              /\ \A i \in 1..(Len(hist) - 1) :
                    IF i \in WrapPairs(h)
                    THEN Len(graph[h][i]) = 2
                    ELSE graph[h][i] =
                            <<DrawLine(PointOf(hist[i]).x, PointOf(hist[i]).y,
                                       PointOf(hist[i + 1]).x, PointOf(hist[i + 1]).y)>>
    /\ \A pair \in {<<358000, 2000>>, <<2000, 358000>>} :
          Len(DrawPair(graph_rect, [x |-> 500, y |-> 100], [x |-> 501, y |-> 400],
                       pair[1], pair[2])) = 2

\* a frame has drawn a history holding a wraparound pair and a direct pair
C7_Witness ==
    /\ frames > 0
    /\ \E h \in Histories :
          /\ WrapPairs(h) # {}
          /\ \E i \in 1..(Len(HistoryOf(h)) - 1) : i \notin WrapPairs(h)

\* the y of the 0 edge and of the 360 edge of the graph
EdgeY(bearing) == PlotY(graph_rect, [relative_bearing_deg |-> bearing])

NearestEdge(bearing) == IF 2 * bearing >= FullCircle THEN FullCircle ELSE 0

OppositeEdge(bearing) == FullCircle - NearestEdge(bearing)

\* C8: of the two segments of a wraparound pair (r1, r2), the first joins r1's point
\* to the edge (0 or 360) nearest r1's bearing and the second joins the opposite edge
\* to r2's point.
C8_WrapSegments ==
    \A h \in Histories :
        \A i \in WrapPairs(h) :
            LET r1 == HistoryOf(h)[i]
                r2 == HistoryOf(h)[i + 1]
                s1 == graph[h][i][1]
                s2 == graph[h][i][2]
            IN  /\ s1.x1 = PointOf(r1).x /\ s1.y1 = PointOf(r1).y
                /\ s1.y2 = EdgeY(NearestEdge(r1.relative_bearing_deg))
                /\ s2.x1 = PointOf(r2).x /\ s2.y1 = PointOf(r2).y
                /\ s2.y2 = EdgeY(OppositeEdge(r1.relative_bearing_deg))

\* C9: a target's track history holds at most 200 positions: its positions after the
\* most recent min(n, 200) ticks, in tick order.
C9_TrackIsRecentPositions ==
    \A t \in 1..Len(targets) :
        /\ Len(targets[t].track_history) <= TrackCap
        /\ Len(track_log[t]) = ticks
        /\ targets[t].track_history = LastN(track_log[t], Min(ticks, TrackCap))

\* more ticks than the cap: the oldest positions have been evicted
C9_Witness ==
    /\ ticks > TrackCap + 1
    /\ \E t \in 1..Len(targets) :
          /\ Len(targets[t].track_history) = TrackCap
          /\ Head(targets[t].track_history) # Head(track_log[t])

\* C10: the own-ship heading is in [0, 360) after every frame, and a frame changes it
\* by that frame's signed turn (0, or 60 degrees per second of frame time to the left
\* or to the right) modulo 360.
C10_InRange == 0 <= own_ship.heading_deg /\ own_ship.heading_deg < FullCircle

C10_TurnAdded ==
    LET dt == real_time' - real_time
        turned == own_ship'.heading_deg - own_ship.heading_deg
    IN  \E d \in {0, TurnDelta(dt), -TurnDelta(dt)} : (turned - d) % FullCircle = 0

C10_HeadingNormalized == [] C10_InRange /\ [][C10_TurnAdded]_vars

\* a left turn has taken the heading below 0 and it was brought back into range
C10_Witness == frames = 1 /\ own_ship.heading_deg = 45000 - 120000 + FullCircle

\* C11: the own-ship speed is never negative, and a frame changes it by the speed
\* keys only: + 5 for an increase, max(speed - 5, 0) for a decrease.
C11_NonNegative == own_ship.speed_knots >= 0

C11_SpeedCommand ==
    own_ship'.speed_knots \in
        {own_ship.speed_knots, own_ship.speed_knots + speed_change_knots,
         Max(own_ship.speed_knots - speed_change_knots, 0)}

C11_SpeedClamped == [] C11_NonNegative /\ [][C11_SpeedCommand]_vars

\* three frames with the speed at 0 after them: 5 knots were taken off and at least
\* one more frame left the speed at 0
C11_Witness == frames = MaxFrames /\ own_ship.speed_knots = 0

\* the history a frame leaves is the old one, records untouched, less a pruned head
\* and plus at most one new record
IsSuffix(short, long) ==
    /\ Len(short) <= Len(long)
    /\ short = SubSeq(long, Len(long) - Len(short) + 1, Len(long))

\* C12: every stored record has its relative bearing in [0, 360); the record a tick
\* appends holds normalize(true bearing - own heading) of that tick; and no stored
\* record is modified afterwards.
C12_InRange ==
    \A h \in Histories :
        \A i \in 1..Len(HistoryOf(h)) :
            /\ 0 <= HistoryOf(h)[i].relative_bearing_deg
            /\ HistoryOf(h)[i].relative_bearing_deg < FullCircle

C12_RecordedValue ==
    \A h \in Histories :
        LET old == HistoryOf(h)
            new == own_ship'.recorded_bearings[h].history
        IN  IF ticks' = ticks
            THEN new = old
            ELSE /\ new # << >>
                 /\ IsSuffix(SubSeq(new, 1, Len(new) - 1), old)
                 /\ (new[Len(new)].relative_bearing_deg
                        - (last_true_bearing' - own_ship'.heading_deg)) % FullCircle = 0

C12_RelativeBearing == [] C12_InRange /\ [][C12_RecordedValue]_vars

\* a record whose true bearing was smaller than the heading: the difference was negative
C12_Witness ==
    \E h \in Histories :
        /\ HistoryOf(h) # << >>
        /\ last_true_bearing < own_ship.heading_deg
        /\ HistoryOf(h)[Len(HistoryOf(h))].relative_bearing_deg
              = last_true_bearing - own_ship.heading_deg + FullCircle

\* C13: normalize_degrees returns, for every angle tried (negative, zero, 360 and
\* more), the value of [0, 360) congruent to it modulo 360, and applying it to its
\* own result changes nothing.
C13_Normalize ==
    probe.fn = "normalize_degrees" =>
        /\ \A i \in 1..Len(probe.out) :
              /\ 0 <= probe.out[i] /\ probe.out[i] < FullCircle
              /\ (probe.out[i] - probe.arg) % FullCircle = 0
        /\ Len(probe.out) = 2 => probe.out[2] = probe.out[1]

\* applied twice to a negative angle and to an angle of 360 or more
C13_Witness ==
    /\ probe.fn = "normalize_degrees"
    /\ Len(probe.out) = 2
    /\ probe.arg = FullCircle * MaxTurns

\* the world k simulation updates after initialisation, whatever the frames were
RECURSIVE WorldAfter(_)
WorldAfter(k) ==
    IF k = 0
    THEN [sim_time |-> 0, own_ship |-> InitOwnShip, targets |-> InitTargets,
          last_true |-> 0, last_relative |-> 0]
    ELSE SimulationUpdate(WorldAfter(k - 1))

\* C14: with no key touched the world after the k-th tick does not depend on the
\* frame times that led to it: whatever the sequence of frame times, sim_time, the
\* own-ship (position and bearing histories) and the targets (positions and track
\* histories) are those of k updates from the initial state.
C14_SameWorldAfterSameTicks ==
    LET w == WorldAfter(ticks)
    IN  /\ sim_time = w.sim_time
        /\ own_ship = w.own_ship
        /\ targets = w.targets

\* ticks reached at a low rate of ticks per frame, with real time left over
C14_Witness == ticks >= 2 /\ frames >= 3 * ticks /\ accumulator > 0

\* C15: the true bearing is measured clockwise from North: 0 for a target due north
\* of the observer, 90 due east, 180 due south, 270 due west, within the matching
\* quarter for a target off the axes, and always in [0, 360).
C15_BearingFromNorth ==
    (probe.fn = "calculate_true_bearing_deg" /\ probe.out # << >>) =>
        LET dx == probe.arg.target.x - probe.arg.observer.x
            dy == probe.arg.target.y - probe.arg.observer.y
            b == probe.out[1]
        IN  /\ 0 <= b /\ b < FullCircle
            /\ (dx = 0 /\ dy > 0) => b = 0
            /\ (dx > 0 /\ dy = 0) => b = 90000
            /\ (dx = 0 /\ dy < 0) => b = 180000
            /\ (dx < 0 /\ dy = 0) => b = 270000
            /\ (dx > 0 /\ dy > 0) => b <= 90000
            /\ (dx > 0 /\ dy < 0) => 90000 <= b /\ b <= 180000
            /\ (dx < 0 /\ dy < 0) => 180000 <= b /\ b <= 270000
            /\ (dx < 0 /\ dy > 0) => 270000 <= b \/ b = 0   \* 360 is stored as 0
            /\ (dx = dy /\ dx > 0) => b = 45000

\* the bearing of a target due west has been computed: atan2 is negative there
C15_Witness ==
    /\ probe.fn = "calculate_true_bearing_deg"
    /\ probe.out = <<270000>>
    /\ probe.arg.target.y = probe.arg.observer.y

Last(seq) == seq[Len(seq)]

\* C16: within a tick sim_time is incremented, then the own-ship and every target are
\* advanced (each target's new position appended to its track), and only then are
\* the bearings computed and recorded: the record appended carries the new sim_time
\* and the bearing between the advanced positions.
C16_TickOrder ==
    ticks' = ticks + 1 =>
        /\ sim_time' = sim_time + time_step_s
        /\ \A t \in 1..Len(targets) :
              /\ targets'[t].position_m =
                    update_position(targets[t].position_m, targets[t].speed_knots,
                                    targets[t].heading_deg, time_step_s)
              /\ Last(targets'[t].track_history) = targets'[t].position_m
              /\ LET j == FindHistory(own_ship'.recorded_bearings, targets[t].id)
                     hist == own_ship'.recorded_bearings[j].history
                 IN  j # 0 =>
                        /\ Last(hist).timestamp_s = sim_time'
                        /\ Last(hist).relative_bearing_deg =
                              normalize_degrees(
                                  calculate_true_bearing_deg(own_ship'.position_m,
                                                             targets'[t].position_m)
                                  - own_ship'.heading_deg)

C16_RecordAfterAdvance == [][C16_TickOrder]_vars

\* two ticks have run, each leaving its record and its track position
C16_Witness ==
    /\ ticks = 2 /\ frames = 2
    /\ \E h \in Histories : Len(HistoryOf(h)) = 2 /\ Last(HistoryOf(h)).timestamp_s = sim_time
    /\ \A t \in 1..Len(targets) : Len(targets[t].track_history) = 2

\* C17: the heading and speed commands of a frame are applied before its tick: the
\* tick advances the own-ship with the heading and speed the frame's input left, and
\* records the relative bearing against that heading.
C17_TickUsesInput ==
    ticks' = ticks + 1 =>
        /\ own_ship'.position_m =
              update_position(own_ship.position_m, own_ship'.speed_knots,
                              own_ship'.heading_deg, time_step_s)
        /\ last_relative_bearing' =
              RelativeBearing(last_true_bearing', own_ship'.heading_deg)
        /\ \A h \in Histories :
              Last(own_ship'.recorded_bearings[h].history).relative_bearing_deg
                  = last_relative_bearing'

C17_InputBeforeTick == [][C17_TickUsesInput]_vars

\* a tick fired in the first frame, whose input turned the ship
C17_Witness ==
    /\ frames = 1 /\ ticks = 1
    /\ own_ship.heading_deg # InitOwnShip.heading_deg
    /\ own_ship.position_m # InitOwnShip.position_m

\* C18: a frame in which no tick is due (accumulator + frame time < time step) leaves
\* sim_time, the own-ship position, the targets (position, heading, speed, track)
\* and every bearing history unchanged.
C18_NoTickFrame ==
    accumulator + (real_time' - real_time) < time_step_s =>
        /\ sim_time' = sim_time
        /\ targets' = targets
        /\ own_ship'.position_m = own_ship.position_m
        /\ own_ship'.recorded_bearings = own_ship.recorded_bearings
        /\ ticks' = ticks

C18_NoTickNoChange == [][C18_NoTickFrame]_vars

\* a frame without a tick has run after a tick, and its input turned the ship
C18_Witness ==
    /\ frames = 2 /\ ticks = 1 /\ accumulator = 500
    /\ own_ship.heading_deg = InitOwnShip.heading_deg + TurnDelta(500)

\* C19: at every render every record of every history is within the graph's window,
\* so the plotted points are the points of the records, one each and in order, and
\* the segment drawn for pair i starts at the point of record i.
C19_PointsMatchRecords ==
    frames > 0 =>
        \A h \in Histories :
            LET hist == HistoryOf(h)
                points == PointsToDraw(hist, sim_time, graph_rect)
            IN  /\ \A i \in 1..Len(hist) :
                      sim_time - hist[i].timestamp_s <= time_bearing_graph_history_s
                /\ Len(points) = Len(hist)
                /\ \A i \in 1..Len(hist) : points[i] = PointOf(hist[i])
                /\ Len(graph[h]) = Max(Len(hist) - 1, 0)
                /\ \A i \in 1..(Len(hist) - 1) :
                      /\ graph[h][i][1].x1 = PointOf(hist[i]).x
                      /\ graph[h][i][1].y1 = PointOf(hist[i]).y

\* a full window has been drawn: its oldest record is exactly as old as the window
C19_Witness ==
    \E h \in (IF frames > 0 THEN Histories ELSE {}) :
        /\ Len(graph[h]) = time_bearing_graph_history_s \div time_step_s
        /\ sim_time - Head(HistoryOf(h)).timestamp_s = time_bearing_graph_history_s

Registered(target) ==
    \E j \in 1..Len(own_ship.recorded_bearings) :
        own_ship.recorded_bearings[j].id = target.id

\* C20: a tick records nothing for a target whose id has no registered history: the
\* registered histories stay the same entries, their contents are what the tick
\* leaves when run without that target, and the target itself is still advanced and
\* its track extended.
C20_SameEntries ==
    [i \in 1..Len(own_ship.recorded_bearings) |-> own_ship.recorded_bearings[i].id]
        = [i \in 1..Len(InitOwnShip.recorded_bearings) |-> InitOwnShip.recorded_bearings[i].id]

C20_TickWithStray ==
    ticks' = ticks + 1 =>
        LET steered == [own_ship EXCEPT !.heading_deg = own_ship'.heading_deg,
                                        !.speed_knots = own_ship'.speed_knots]
            without == SimulationUpdate(
                          [sim_time |-> sim_time, own_ship |-> steered,
                           targets |-> SelectSeq(targets, Registered),
                           last_true |-> last_true_bearing,
                           last_relative |-> last_relative_bearing])
        IN  /\ own_ship'.recorded_bearings = without.own_ship.recorded_bearings
            /\ \A t \in 1..Len(targets) :
                  ~Registered(targets[t]) =>
                      /\ targets'[t].position_m =
                            update_position(targets[t].position_m, targets[t].speed_knots,
                                            targets[t].heading_deg, time_step_s)
                      /\ targets'[t].track_history =
                            PushTrack(targets[t].track_history, targets'[t].position_m)

C20_UnregisteredTarget == [] C20_SameEntries /\ [][C20_TickWithStray]_vars

\* ticks have run with an unregistered target: it has moved, and nothing was recorded
\* for it
C20_Witness ==
    /\ ticks >= 2
    /\ \E t \in 1..Len(targets) :
          /\ ~Registered(targets[t])
          /\ Len(targets[t].track_history) = ticks
          /\ targets[t].position_m # StrayTarget.position_m
    /\ \A h \in Histories : Len(HistoryOf(h)) = ticks

===========================================================================
